---------------------------- MODULE Spec2Model ----------------------------
(***************************************************************************)
(* Inbound request authentication of the alexa-skill library.              *)
(*                                                                         *)
(*   Spec        the HTTP gate of server.NewValidatingHandler:             *)
(*               verifyCertURL, the CertReader, readValidateCertificate,   *)
(*               readValidateBody and the hand-over to the wrapped handler *)
(*   SpecStrict  alexa.StrictVerificationApp.Handle: validateApplicationID *)
(*               and validateTimestamp in front of App.Handle              *)
(*                                                                         *)
(* Strings that the code inspects (URLs, base64 text) are sequences of     *)
(* one-character strings or of symbols, so that parsing and decoding are   *)
(* computed and not assumed.                                               *)
(***************************************************************************)
EXTENDS Integers, Sequences, FiniteSets, TLC

\* A nil pointer or absent value is the empty sequence, a present one the
\* one-element sequence of its value.
Nil == <<>>

Some(x) == <<x>>

\* ------------------------------------------------------------------------
\* Characters and strings
\* ------------------------------------------------------------------------

\* The printable ASCII characters, in code order starting at 32.
Ascii ==
  <<" ", "!", "dquote", "#", "$", "%", "&", "'", "(", ")", "*", "+", ",", "-", ".", "/",
    "0", "1", "2", "3", "4", "5", "6", "7", "8", "9", ":", ";", "<", "=", ">", "?",
    "@", "A", "B", "C", "D", "E", "F", "G", "H", "I", "J", "K", "L", "M", "N", "O",
    "P", "Q", "R", "S", "T", "U", "V", "W", "X", "Y", "Z", "[", "backslash", "]", "^", "_",
    "backtick", "a", "b", "c", "d", "e", "f", "g", "h", "i", "j", "k", "l", "m", "n", "o",
    "p", "q", "r", "s", "t", "u", "v", "w", "x", "y", "z", "{", "|", "}", "~">>

\* The byte value of a character.
Code(c) == 31 + CHOOSE i \in 1..Len(Ascii) : Ascii[i] = c

\* The character of a byte value; a byte outside the printable range is kept
\* as one opaque character that equals no printable one.
Chr(n) == IF n >= 32 /\ n <= 126 THEN Ascii[n - 31] ELSE "nonprintable"

IsLetter(c) == LET n == Code(c) IN (n >= 97 /\ n <= 122) \/ (n >= 65 /\ n <= 90)

IsDigit(c) == LET n == Code(c) IN n >= 48 /\ n <= 57

\* strings.ToLower on one character
LowerChar(c) == LET n == Code(c) IN IF n >= 65 /\ n <= 90 THEN Chr(n + 32) ELSE c

ToLower(s) == [i \in 1..Len(s) |-> LowerChar(s[i])]

\* strings.Index for a one-character needle: the first position, 0 when absent
Index(s, c) ==
  IF \E i \in 1..Len(s) : s[i] = c
  THEN CHOOSE i \in 1..Len(s) : s[i] = c /\ \A j \in 1..(i - 1) : s[j] # c
  ELSE 0

\* strings.LastIndex for a one-character needle
LastIndex(s, c) ==
  IF \E i \in 1..Len(s) : s[i] = c
  THEN CHOOSE i \in 1..Len(s) : s[i] = c /\ \A j \in (i + 1)..Len(s) : s[j] # c
  ELSE 0

Count(s, c) == Cardinality({i \in 1..Len(s) : s[i] = c})

HasPrefix(s, p) == Len(s) >= Len(p) /\ SubSeq(s, 1, Len(p)) = p

From(s, i) == SubSeq(s, i, Len(s))

\* url.split(s, c, cutc): cut s at the first c
SplitHead(s, c) == IF Index(s, c) = 0 THEN s ELSE SubSeq(s, 1, Index(s, c) - 1)

SplitTailCut(s, c) == IF Index(s, c) = 0 THEN <<>> ELSE From(s, Index(s, c) + 1)

SplitTailKeep(s, c) == IF Index(s, c) = 0 THEN <<>> ELSE From(s, Index(s, c))

\* ------------------------------------------------------------------------
\* net/url.Parse, as verifyCertURL uses it
\* ------------------------------------------------------------------------

IsHex(c) ==
  LET n == Code(c)
  IN  IsDigit(c) \/ (n >= 97 /\ n <= 102) \/ (n >= 65 /\ n <= 70)

Unhex(c) ==
  LET n == Code(c)
  IN  IF IsDigit(c) THEN n - 48
      ELSE IF n >= 97 /\ n <= 102 THEN n - 97 + 10
      ELSE n - 65 + 10

\* unescape, first pass: every % is followed by two hex digits
ValidEscapes(s) ==
  \A i \in 1..Len(s) :
    s[i] = "%" => (i + 2 <= Len(s) /\ IsHex(s[i + 1]) /\ IsHex(s[i + 2]))

\* unescape, second pass, in path mode: %XX becomes the byte, the rest is kept
RECURSIVE Unescape(_)
Unescape(s) ==
  IF s = <<>> THEN <<>>
  ELSE IF s[1] = "%"
       THEN <<Chr(16 * Unhex(s[2]) + Unhex(s[3]))>> \o Unescape(From(s, 4))
       ELSE <<s[1]>> \o Unescape(From(s, 2))

\* getscheme: [scheme, rest, err]
RECURSIVE ScanScheme(_, _)
ScanScheme(rawurl, i) ==
  IF i > Len(rawurl) THEN [scheme |-> <<>>, rest |-> rawurl, err |-> FALSE]
  ELSE LET c == rawurl[i]
       IN  IF IsLetter(c) THEN ScanScheme(rawurl, i + 1)
           ELSE IF IsDigit(c) \/ c \in {"+", "-", "."}
                THEN IF i = 1
                     THEN [scheme |-> <<>>, rest |-> rawurl, err |-> FALSE]
                     ELSE ScanScheme(rawurl, i + 1)
           ELSE IF c = ":"
                THEN IF i = 1
                     THEN [scheme |-> <<>>, rest |-> <<>>, err |-> TRUE]
                     ELSE [scheme |-> SubSeq(rawurl, 1, i - 1),
                           rest |-> From(rawurl, i + 1), err |-> FALSE]
           ELSE [scheme |-> <<>>, rest |-> rawurl, err |-> FALSE]

getscheme(rawurl) == ScanScheme(rawurl, 1)

\* validOptionalPort: empty, or ":" followed by digits only
validOptionalPort(port) ==
  port = <<>> \/ (port[1] = ":" /\ \A i \in 2..Len(port) : IsDigit(port[i]))

\* The characters a host may hold unescaped (shouldEscape in host mode).
IsHostChar(c) ==
  IsLetter(c) \/ IsDigit(c)
    \/ c \in {"-", "_", ".", "~", "!", "$", "&", "'", "(", ")", "*", "+", ",",
              ";", "=", ":", "[", "]", "<", ">", "dquote"}

\* parseHost for a host that is not an IP literal: TRUE when it is accepted
parseHostOK(host) ==
  /\ LastIndex(host, ":") # 0 => validOptionalPort(From(host, LastIndex(host, ":")))
  /\ \A i \in 1..Len(host) : IsHostChar(host[i])

validUserinfo(s) ==
  \A i \in 1..Len(s) :
    IsLetter(s[i]) \/ IsDigit(s[i])
      \/ s[i] \in {"-", ".", "_", ":", "~", "!", "$", "&", "'", "(", ")", "*",
                   "+", ",", ";", "=", "%", "@"}

\* parseAuthority: [Host, err]
parseAuthority(authority) ==
  LET i    == LastIndex(authority, "@")
      host == IF i = 0 THEN authority ELSE From(authority, i + 1)
  IN  IF ~parseHostOK(host) THEN [Host |-> <<>>, err |-> TRUE]
      ELSE IF i # 0 /\ ~validUserinfo(SubSeq(authority, 1, i - 1))
           THEN [Host |-> <<>>, err |-> TRUE]
      ELSE [Host |-> host, err |-> FALSE]

NoURL == [ok |-> FALSE, Scheme |-> <<>>, Host |-> <<>>, Path |-> <<>>]

\* url.parse(rawurl, viaRequest = false) on the URL without its fragment
parse(u) ==
  LET gs     == getscheme(u)
      scheme == ToLower(gs.scheme)
      rest0  == gs.rest
      rest   == IF rest0 # <<>> /\ rest0[Len(rest0)] = "?" /\ Count(rest0, "?") = 1
                THEN SubSeq(rest0, 1, Len(rest0) - 1)
                ELSE SplitHead(rest0, "?")
      colon  == Index(rest, ":")
      slash  == Index(rest, "/")
      hasAuth == HasPrefix(rest, <<"/", "/">>)
                   /\ (scheme # <<>> \/ ~HasPrefix(rest, <<"/", "/", "/">>))
      afterSl == From(rest, 3)
      auth    == parseAuthority(SplitHead(afterSl, "/"))
      path    == IF hasAuth THEN SplitTailKeep(afterSl, "/") ELSE rest
  IN  IF gs.err THEN NoURL
      ELSE IF u = <<"*">>
           THEN [ok |-> TRUE, Scheme |-> <<>>, Host |-> <<>>, Path |-> u]
      ELSE IF ~HasPrefix(rest, <<"/">>) /\ scheme # <<>>
           THEN [ok |-> TRUE, Scheme |-> scheme, Host |-> <<>>, Path |-> <<>>]
      ELSE IF ~HasPrefix(rest, <<"/">>) /\ colon > 0 /\ (slash = 0 \/ colon < slash)
           THEN NoURL
      ELSE IF hasAuth /\ auth.err THEN NoURL
      ELSE IF ~ValidEscapes(path) THEN NoURL
      ELSE [ok |-> TRUE, Scheme |-> scheme,
            Host |-> IF hasAuth THEN auth.Host ELSE <<>>,
            Path |-> Unescape(path)]

\* url.Parse: the fragment is cut off first and must unescape; a failed parse
\* returns a nil *URL together with the error
Parse(rawurl) ==
  LET u    == SplitHead(rawurl, "#")
      frag == SplitTailCut(rawurl, "#")
      url  == parse(u)
  IN  IF ~url.ok THEN NoURL
      ELSE IF ~ValidEscapes(frag) THEN NoURL
      ELSE url

\* ------------------------------------------------------------------------
\* verifyCertURL
\* ------------------------------------------------------------------------

Https == <<"h", "t", "t", "p", "s">>

TrustedHost == <<"s", "3", ".", "a", "m", "a", "z", "o", "n", "a", "w", "s", ".", "c", "o", "m">>

TrustedHostPort == TrustedHost \o <<":", "4", "4", "3">>

EchoPrefix == <<"/", "e", "c", "h", "o", ".", "a", "p", "i", "/">>

\* verifyCertURL(path): "ok", the error message, or "panic" when the ignored
\* parse error left link nil and link.Scheme dereferences it
verifyCertURL(path) ==
  LET link == Parse(path)
  IN  IF ~link.ok THEN "panic"
      ELSE IF link.Scheme # Https THEN "cert url not https"
      ELSE IF link.Host # TrustedHost /\ link.Host # TrustedHostPort
           THEN "cert not on s3"
      ELSE IF ~HasPrefix(link.Path, EchoPrefix) THEN "not an echo cert"
      ELSE "ok"

\* ------------------------------------------------------------------------
\* Bytes, encoding/base64 (StdEncoding) and the digest and signature scheme
\* ------------------------------------------------------------------------

\* A base64 text is a sequence of symbols: 0..63 are the characters of the
\* standard alphabet by value, 64 is the padding character "=", and any
\* larger symbol is a character outside the alphabet.
IsPad(c) == c = 64

IsSextet(c) == c \in 0..63

\* StdEncoding.EncodeToString
RECURSIVE EncodeToString(_)
EncodeToString(src) ==
  IF src = <<>> THEN <<>>
  ELSE IF Len(src) = 1
       THEN <<src[1] \div 4, (src[1] % 4) * 16, 64, 64>>
  ELSE IF Len(src) = 2
       THEN <<src[1] \div 4, (src[1] % 4) * 16 + src[2] \div 16,
              (src[2] % 16) * 4, 64>>
  ELSE <<src[1] \div 4, (src[1] % 4) * 16 + src[2] \div 16,
         (src[2] % 16) * 4 + src[3] \div 64, src[3] % 64>>
         \o EncodeToString(From(src, 4))

\* The bytes of one quantum of dlen sextets (dlen - 1 bytes).
QuantumBytes(d, dlen) ==
  LET val == d[1] * 262144 + d[2] * 4096 + d[3] * 64 + d[4]
      b   == <<val \div 65536, (val \div 256) % 256, val % 256>>
  IN  SubSeq(b, 1, dlen - 1)

\* Encoding.decodeQuantum at position si (1-based):
\* [si: the next position, out: the bytes, err: whether the input is corrupt]
decodeQuantum(src, si) ==
  LET n      == Len(src) - si + 1
      \* the number of leading alphabet characters of this quantum (at most 4)
      good   == CHOOSE j \in 0..4 :
                  /\ \A i \in 0..(j - 1) : i < n /\ IsSextet(src[si + i])
                  /\ (j = 4 \/ j >= n \/ ~IsSextet(src[si + j]))
      d      == [i \in 1..4 |-> IF i <= good THEN src[si + i - 1] ELSE 0]
      fail   == [si |-> si + good, out |-> <<>>, err |-> TRUE]
      \* the position after the padding: 0 when the padding is incorrect
      padEnd == IF good = 3 THEN si + 4
                ELSE IF si + 3 <= Len(src) /\ IsPad(src[si + 3]) THEN si + 4
                ELSE 0
  IN  IF good = 4 THEN [si |-> si + 4, out |-> QuantumBytes(d, 4), err |-> FALSE]
      ELSE IF good >= n
           \* the input ends inside the quantum: padding is required
           THEN IF good = 0 THEN [si |-> si, out |-> <<>>, err |-> FALSE] ELSE fail
      ELSE IF ~IsPad(src[si + good]) THEN fail
      ELSE IF good < 2 THEN fail
      ELSE IF padEnd = 0 THEN fail
      ELSE \* padding read; what follows it is trailing garbage, reported
           \* together with the bytes of this quantum
           [si |-> Len(src) + 1, out |-> QuantumBytes(d, good),
            err |-> padEnd <= Len(src)]

\* Encoding.Decode: the bytes decoded before the first corrupt quantum are kept
RECURSIVE Decode(_, _)
Decode(src, si) ==
  IF si > Len(src) THEN [out |-> <<>>, err |-> FALSE]
  ELSE LET q == decodeQuantum(src, si)
       IN  IF q.err THEN [out |-> q.out, err |-> TRUE]
           ELSE LET rest == Decode(src, q.si)
                IN  [out |-> q.out \o rest.out, err |-> rest.err]

\* StdEncoding.DecodeString: (dbuf[:n], err)
DecodeString(s) == Decode(s, 1)

\* sha1.Sum over the bytes written: a fixed-size digest, one-to-one on the
\* bodies the model draws (digest collisions are outside the model).
RECURSIVE Fold(_, _)
Fold(bytes, j) ==
  IF bytes = <<>> THEN 0
  ELSE (IF (Len(bytes) - 1) % 3 = j THEN 7 * bytes[Len(bytes)] + 1 ELSE 0)
         + Fold(SubSeq(bytes, 1, Len(bytes) - 1), j)

Sha1Sum(bytes) ==
  <<Fold(bytes, 0) % 256, Fold(bytes, 1) % 256, Fold(bytes, 2) % 256,
    Len(bytes) % 256>>

\* EMSA-PKCS1-v1_5: 00 01 FF .. FF 00 digest, as long as the modulus
RECURSIVE Repeat(_, _)
Repeat(b, n) == IF n <= 0 THEN <<>> ELSE <<b>> \o Repeat(b, n - 1)

EncodedMessage(k, hashed) ==
  <<0, 1>> \o Repeat(255, k - Len(hashed) - 3) \o <<0>> \o hashed

\* The RSA public and private operations: mutually inverse one-to-one maps
\* of byte strings of the key size (e * d = 1 modulo 256, byte by byte).
RSAPublic(pub, sig) == [i \in 1..Len(sig) |-> (sig[i] * pub.e) % 256]

RSAPrivate(priv, em) == [i \in 1..Len(em) |-> (em[i] * priv.d) % 256]

\* rsa.SignPKCS1v15, the sender's side
SignPKCS1v15(priv, hashed) == RSAPrivate(priv, EncodedMessage(priv.size, hashed))

\* rsa.VerifyPKCS1v15: TRUE when err == nil
VerifyPKCS1v15(pub, hashed, sig) ==
  /\ Len(sig) = pub.size
  /\ RSAPublic(pub, sig) = EncodedMessage(pub.size, hashed)

\* ------------------------------------------------------------------------
\* The inputs of the HTTP gate
\* ------------------------------------------------------------------------

\* Bounds of the model.
MaxNow == 5

MaxBodyLen == 2

\* The resolution of the clock: ticks in one second.
TicksPerSecond == 2

\* time.Time.Unix() truncates to seconds.
Unix(t) == t \div TicksPerSecond

Times == 0..MaxNow

\* The values of the SignatureCertChainUrl header: every concatenation of a
\* scheme part, an authority part and a path part.
SchemeParts ==
  {<<>>,
   <<"h", "t", "t", "p", ":">>,
   <<"h", "t", "t", "p", "s", ":">>,
   <<":">>}

AuthorityParts ==
  {<<>>,
   <<"/", "/", "s", "3", ".", "a", "m", "a", "z", "o", "n", "a", "w", "s", ".", "c", "o", "m">>,
   <<"/", "/", "s", "3", ".", "a", "m", "a", "z", "o", "n", "a", "w", "s", ".", "c", "o", "m", ":", "4", "4", "3">>,
   <<"/", "/", "s", "3", ".", "a", "m", "a", "z", "o", "n", "a", "w", "s", ".", "c", "o", "m", ":", "8", "0">>,
   <<"/", "/", "e", "v", "i", "l", ".", "c", "o", "m">>,
   <<"/", "/", "s", "3", ".", "a", "m", "a", "z", "o", "n", "a", "w", "s", ".", "c", "o", "m", "@", "e", "v", "i", "l", ".", "c", "o", "m">>}

PathParts ==
  {<<>>,
   <<"/", "e", "c", "h", "o", ".", "a", "p", "i", "/", "c">>,
   <<"/", "e", "c", "h", "o", ".", "a", "p", "i">>,
   <<"/", "e", "c", "h", "o", ".", "a", "p", "i", "/", "%", "z", "z">>,
   <<"/", "c">>}

\* An upper-case scheme and an escaped path separator
OtherURLs ==
  {<<"H", "T", "T", "P", "S", ":", "/", "/", "s", "3", ".", "a", "m", "a", "z", "o", "n", "a", "w", "s", ".", "c", "o", "m", "/", "e", "c", "h", "o", ".", "a", "p", "i", "/", "c">>,
   <<"h", "t", "t", "p", "s", ":", "/", "/", "s", "3", ".", "a", "m", "a", "z", "o", "n", "a", "w", "s", ".", "c", "o", "m", "/", "e", "c", "h", "o", ".", "a", "p", "i", "%", "2", "F", "c">>,
   <<"h", "t", "t", "p", "s", ":", "/", "/", "S", "3", ".", "a", "m", "a", "z", "o", "n", "a", "w", "s", ".", "c", "o", "m", "/", "e", "c", "h", "o", ".", "a", "p", "i", "/", "c">>}

CertURLs ==
  {a \o b \o c : a \in SchemeParts, b \in AuthorityParts, c \in PathParts}
    \cup OtherURLs

\* Public keys a certificate may carry: two RSA keys and one of another family.
RSAKeys ==
  {[type |-> "rsa", id |-> 1, e |-> 3, d |-> 171, size |-> 10],
   [type |-> "rsa", id |-> 2, e |-> 5, d |-> 205, size |-> 10]}

OtherKeys == {[type |-> "ecdsa", id |-> 3, e |-> 0, d |-> 0, size |-> 0]}

EchoName == "echo-api.amazon.com"

SubjectNames ==
  {<<>>, <<"evil.example.com">>, <<EchoName>>, <<"evil.example.com", EchoName>>}

\* Parsed certificates: validity window in seconds, subject names, public key.
\* Every combination of names and keys on the window [1, 1]; every window
\* within 0..2 on a certificate without names; one acceptable certificate on
\* the window [1, 2].
Certificates ==
  [NotBefore : {1}, NotAfter : {1}, Names : SubjectNames,
   PublicKey : RSAKeys \cup OtherKeys]
    \cup [NotBefore : 0..2, NotAfter : 0..2, Names : {<<>>},
          PublicKey : {k \in RSAKeys : k.id = 1}]
    \cup [NotBefore : {1}, NotAfter : {2}, Names : {<<EchoName>>},
          PublicKey : {k \in RSAKeys : k.id = 1}]

\* What the CertReader may return: a transport error, bytes that hold no PEM
\* block, a PEM block that is no certificate, or a PEM-encoded certificate.
ReaderResults ==
  {[err |-> TRUE, pem |-> FALSE, der |-> Nil],
   [err |-> FALSE, pem |-> FALSE, der |-> Nil],
   [err |-> FALSE, pem |-> TRUE, der |-> Nil]}
    \cup {[err |-> FALSE, pem |-> TRUE, der |-> Some(c)] : c \in Certificates}

BodyBytes == {123, 125}

RECURSIVE SeqsUpTo(_, _)
SeqsUpTo(S, n) ==
  IF n = 0 THEN {<<>>}
  ELSE SeqsUpTo(S, n - 1)
         \cup {Append(q, x) : q \in {p \in SeqsUpTo(S, n - 1) : Len(p) = n - 1}, x \in S}

Bodies == SeqsUpTo(BodyBytes, MaxBodyLen)

\* A request body stream: the chunks successive Read calls deliver, and
\* whether the stream then ends with io.EOF or with a read error.
Chunkings(b) ==
  IF b = <<>> THEN {<<>>}
  ELSE {<<b>>, [i \in 1..Len(b) |-> <<b[i]>>]}

Streams == {[chunks |-> c, fail |-> f] : c \in UNION {Chunkings(b) : b \in Bodies},
                                          f \in BOOLEAN}

\* The values of the Signature header: the base64 text of a signature made
\* over some body with some RSA key, and damaged forms of the signatures
\* made over the empty body.
Signatures == {SignPKCS1v15(k, Sha1Sum(b)) : k \in RSAKeys, b \in Bodies}

Damaged(text) ==
  {text \o <<65>>,
   SubSeq(text, 1, Len(text) - 1),
   <<65>> \o text,
   [text EXCEPT ![2] = (text[2] + 1) % 64],
   <<>>}

SignatureHeaders ==
  {EncodeToString(sg) : sg \in Signatures}
    \cup UNION {Damaged(EncodeToString(SignPKCS1v15(k, Sha1Sum(<<>>)))) : k \in RSAKeys}

\* ------------------------------------------------------------------------
\* State
\* ------------------------------------------------------------------------

VARIABLES
  pc,              \* where the validating handler stands in the current request
  certURL,         \* r.Header.Get("SignatureCertChainUrl")
  now,             \* time.Now() as read by the handler, in ticks
  urlResult,       \* what verifyCertURL returned for certURL ("" before the call)
  certReaderCalls, \* the URLs the CertReader was called with, for this request
  certContents,    \* what the CertReader returned
  cert,            \* the *x509.Certificate readValidateCertificate returned
  certErr,         \* the error readValidateCertificate returned ("" is nil)
  signature,       \* r.Header.Get("Signature")
  body,            \* the inbound r.Body stream
  bodyBuf,         \* the io.Reader readValidateBody returned
  bodyErr,         \* the error readValidateBody returned ("" is nil)
  status,          \* the status written to the ResponseWriter (0: none)
  handlerCalled,   \* whether alexaHandler.ServeHTTP was called
  handlerBody,     \* the r.Body the wrapped handler was given
  panicked,        \* whether the request ended in a run-time panic
  rejectedWith,    \* the statuses with which authenticity rejections were reported
  spc,             \* where StrictVerificationApp.Handle stands
  envelope,        \* the *RequestEnvelope handed to Handle
  applicationID,   \* App.ApplicationID, the configured expected identity
  sentAt,          \* the instant the sender stamped into the request
  strictNow,       \* time.Now() as read by Handle, in ticks
  idErr,           \* what validateApplicationID returned
  tsErr,           \* what validateTimestamp returned
  appHandled,      \* whether the wrapped App.Handle was invoked
  strictResult     \* how Handle ended

httpVars ==
  <<pc, certURL, now, urlResult, certReaderCalls, certContents, cert, certErr,
    signature, body, bodyBuf, bodyErr, status, handlerCalled, handlerBody,
    panicked, rejectedWith>>

strictVars ==
  <<spc, envelope, applicationID, sentAt, strictNow, idErr, tsErr, appHandled,
    strictResult>>

vars == <<httpVars, strictVars>>

NoStream == [chunks |-> <<>>, fail |-> FALSE]

\* http.StatusUnauthorized
StatusUnauthorized == 401

\* ------------------------------------------------------------------------
\* readValidateCertificate
\* ------------------------------------------------------------------------

\* The loop over cert.Subject.Names
RECURSIVE foundName(_)
foundName(names) ==
  IF names = <<>> THEN FALSE
  ELSE (names[Len(names)] = EchoName) \/ foundName(SubSeq(names, 1, Len(names) - 1))

\* validateCertificate with the not-after bound made exclusive
validateCertificate_ExclusiveNotAfter(c, t) ==
  IF Unix(t) < c.NotBefore \/ Unix(t) >= c.NotAfter THEN "certificate expired"
  ELSE IF ~foundName(c.Names) THEN "certification invalid"
  ELSE ""

\* The checks on the parsed certificate: "" when it is returned with a nil error
validateCertificate(c, t) ==
  IF Unix(t) < c.NotBefore \/ Unix(t) > c.NotAfter THEN "certificate expired"
  ELSE IF ~foundName(c.Names) THEN "certification invalid"
  ELSE ""

\* pem.Decode, x509.ParseCertificate and the checks: [cert, err]
parseValidateCertificate(contents, t) ==
  IF ~contents.pem THEN [cert |-> Nil, err |-> "failed to parse certificate PEM"]
  ELSE IF contents.der = Nil THEN [cert |-> Nil, err |-> "x509: malformed certificate"]
  ELSE LET e == validateCertificate(contents.der[1], t)
       IN  [cert |-> IF e = "" THEN contents.der ELSE Nil, err |-> e]

\* ------------------------------------------------------------------------
\* readValidateBody
\* ------------------------------------------------------------------------

\* io.Copy(hash, io.TeeReader(r.Body, &bodyBuf)): every chunk read is written
\* to bodyBuf by the tee and then to the hash by the copy
RECURSIVE TeeCopy(_)
TeeCopy(chunks) ==
  IF chunks = <<>> THEN [buf |-> <<>>, hashed |-> <<>>]
  ELSE LET rest == TeeCopy(From(chunks, 2))
       IN  [buf |-> chunks[1] \o rest.buf, hashed |-> chunks[1] \o rest.hashed]

\* readValidateBody(r, cert) for a non-nil cert: [panic, buf, err]
readValidateBody(stream, sigHeader, c) ==
  LET publicKey    == c.PublicKey
      encryptedSig == DecodeString(sigHeader).out
      copied       == TeeCopy(stream.chunks)
  IN  IF stream.fail
      THEN [panic |-> FALSE, buf |-> Nil, err |-> "unexpected EOF"]
      ELSE IF publicKey.type # "rsa"
           \* publicKey.(*rsa.PublicKey): an unchecked type assertion
           THEN [panic |-> TRUE, buf |-> Nil, err |-> ""]
      ELSE IF ~VerifyPKCS1v15(publicKey, Sha1Sum(copied.hashed), encryptedSig)
           THEN [panic |-> FALSE, buf |-> Nil, err |-> "signature match failed"]
      ELSE [panic |-> FALSE, buf |-> Some(copied.buf), err |-> ""]

\* ------------------------------------------------------------------------
\* The handler returned by NewValidatingHandler, one request at a time
\* ------------------------------------------------------------------------

HTTPInit ==
  /\ pc = "idle"
  /\ certURL = <<>>
  /\ now = 0
  /\ urlResult = ""
  /\ certReaderCalls = <<>>
  /\ certContents = Nil
  /\ cert = Nil
  /\ certErr = ""
  /\ signature = <<>>
  /\ body = NoStream
  /\ bodyBuf = Nil
  /\ bodyErr = ""
  /\ status = 0
  /\ handlerCalled = FALSE
  /\ handlerBody = Nil
  /\ panicked = FALSE
  /\ rejectedWith = {}

\* A request arrives; the handler reads the clock and the certificate URL header.
Receive ==
  /\ pc = "idle"
  /\ \E u \in CertURLs, t \in Times :
       /\ certURL' = u
       /\ now' = t
  /\ pc' = "verifyCertURL"
  /\ UNCHANGED <<urlResult, certReaderCalls, certContents, cert, certErr, signature,
                 body, bodyBuf, bodyErr, status, handlerCalled, handlerBody,
                 panicked, rejectedWith>>
  /\ UNCHANGED strictVars

\* VerifyCertURLStep without the return on a verifyCertURL error
VerifyCertURLStep_NoReturn ==
  /\ pc = "verifyCertURL"
  /\ urlResult' = verifyCertURL(certURL)
  /\ IF urlResult' = "panic"
     THEN /\ panicked' = TRUE
          /\ pc' = "done"
     ELSE /\ pc' = "certReader"
          /\ UNCHANGED panicked
  /\ UNCHANGED <<certURL, now, certReaderCalls, certContents, cert, certErr,
                 signature, body, bodyBuf, bodyErr, status, handlerCalled,
                 handlerBody, rejectedWith>>
  /\ UNCHANGED strictVars

\* readValidateCertificate up to the return on a verifyCertURL error
VerifyCertURLStep ==
  /\ pc = "verifyCertURL"
  /\ urlResult' = verifyCertURL(certURL)
  /\ IF urlResult' = "panic"
     THEN /\ panicked' = TRUE
          /\ pc' = "done"
          /\ UNCHANGED certErr
     ELSE IF urlResult' # "ok"
          THEN /\ certErr' = urlResult'
               /\ pc' = "certReturned"
               /\ UNCHANGED panicked
     ELSE /\ pc' = "certReader"
          /\ UNCHANGED <<certErr, panicked>>
  /\ UNCHANGED <<certURL, now, certReaderCalls, certContents, cert, signature, body,
                 bodyBuf, bodyErr, status, handlerCalled, handlerBody, rejectedWith>>
  /\ UNCHANGED strictVars

\* The call of the injected CertReader
CertReaderStep ==
  /\ pc = "certReader"
  /\ certReaderCalls' = Append(certReaderCalls, certURL)
  /\ \E rr \in ReaderResults :
       IF rr.err
       THEN /\ certErr' = "failed to read cert"
            /\ pc' = "certReturned"
            /\ UNCHANGED certContents
       ELSE /\ certContents' = Some(rr)
            /\ pc' = "parseCertificate"
            /\ UNCHANGED certErr
  /\ UNCHANGED <<certURL, now, urlResult, cert, signature, body, bodyBuf, bodyErr,
                 status, handlerCalled, handlerBody, panicked, rejectedWith>>
  /\ UNCHANGED strictVars

\* The rest of readValidateCertificate
ParseCertificateStep ==
  /\ pc = "parseCertificate"
  /\ LET res == parseValidateCertificate(certContents[1], now)
     IN  /\ cert' = res.cert
         /\ certErr' = res.err
  /\ pc' = "certReturned"
  /\ UNCHANGED <<certURL, now, urlResult, certReaderCalls, certContents, signature,
                 body, bodyBuf, bodyErr, status, handlerCalled, handlerBody,
                 panicked, rejectedWith>>
  /\ UNCHANGED strictVars

\* The handler's treatment of readValidateCertificate's error: http.Error and
\* no return
CertReturned ==
  /\ pc = "certReturned"
  /\ status' = IF certErr # "" THEN StatusUnauthorized ELSE status
  /\ pc' = "readValidateBody"
  /\ UNCHANGED <<certURL, now, urlResult, certReaderCalls, certContents, cert,
                 certErr, signature, body, bodyBuf, bodyErr, handlerCalled,
                 handlerBody, panicked, rejectedWith>>
  /\ UNCHANGED strictVars

\* The call of readValidateBody(r, cert); cert.PublicKey dereferences a nil cert
ReadValidateBodyStep ==
  /\ pc = "readValidateBody"
  /\ IF cert = Nil
     THEN /\ panicked' = TRUE
          /\ pc' = "done"
          /\ UNCHANGED <<signature, body, bodyBuf, bodyErr>>
     ELSE \E h \in SignatureHeaders, s \in Streams :
            LET res == readValidateBody(s, h, cert[1])
            IN  /\ signature' = h
                /\ body' = s
                /\ bodyBuf' = res.buf
                /\ bodyErr' = res.err
                /\ panicked' = res.panic
                /\ pc' = IF res.panic THEN "done" ELSE "bodyReturned"
  /\ UNCHANGED <<certURL, now, urlResult, certReaderCalls, certContents, cert,
                 certErr, status, handlerCalled, handlerBody, rejectedWith>>
  /\ UNCHANGED strictVars

\* The handler's treatment of readValidateBody's error (http.Error and no
\* return), the restored body and the call of the wrapped handler
ServeStep ==
  /\ pc = "bodyReturned"
  /\ status' = IF bodyErr # "" /\ status = 0 THEN StatusUnauthorized ELSE status
  /\ handlerBody' = bodyBuf
  /\ handlerCalled' = TRUE
  /\ pc' = "done"
  /\ UNCHANGED <<certURL, now, urlResult, certReaderCalls, certContents, cert,
                 certErr, signature, body, bodyBuf, bodyErr, panicked, rejectedWith>>
  /\ UNCHANGED strictVars

\* Errors that state a deliberate authenticity rejection; every other error
\* (a failed fetch, an unreadable body, malformed certificate bytes) is not one.
AuthenticityRejections ==
  {"cert url not https", "cert not on s3", "not an echo cert",
   "certificate expired", "certification invalid", "signature match failed"}

\* The request is over; the next one starts from a fresh handler invocation.
Finish ==
  /\ pc = "done"
  /\ rejectedWith' =
       IF certErr \in AuthenticityRejections \/ bodyErr \in AuthenticityRejections
       THEN rejectedWith \cup {status}
       ELSE rejectedWith
  /\ pc' = "idle"
  /\ certURL' = <<>>
  /\ now' = 0
  /\ urlResult' = ""
  /\ certReaderCalls' = <<>>
  /\ certContents' = Nil
  /\ cert' = Nil
  /\ certErr' = ""
  /\ signature' = <<>>
  /\ body' = NoStream
  /\ bodyBuf' = Nil
  /\ bodyErr' = ""
  /\ status' = 0
  /\ handlerCalled' = FALSE
  /\ handlerBody' = Nil
  /\ panicked' = FALSE
  /\ UNCHANGED strictVars

HTTPNext ==
  \/ Receive
  \/ VerifyCertURLStep
  \/ CertReaderStep
  \/ ParseCertificateStep
  \/ CertReturned
  \/ ReadValidateBodyStep
  \/ ServeStep
  \/ Finish

StrictIdle ==
  /\ spc = "idle"
  /\ envelope = Nil
  /\ applicationID = ""
  /\ sentAt = 0
  /\ strictNow = 0
  /\ idErr = ""
  /\ tsErr = ""
  /\ appHandled = FALSE
  /\ strictResult = ""

\* ------------------------------------------------------------------------
\* StrictVerificationApp: validateApplicationID and validateTimestamp
\* ------------------------------------------------------------------------

\* The skew tolerance Handle passes to validateTimestamp, in seconds
maxDiffSeconds == 150

\* How far, in seconds, the model moves the request's timestamp past the
\* tolerance on either side.
SkewMargin == 2

\* The instant around which the model places the clock.
Epoch == 100000

Abs(x) == IF x < 0 THEN 0 - x ELSE x

\* Zone offsets of a timestamp, in hours; 0 is written "Z".
Zones == {0, 1, -8}

\* A timestamp string in RFC 3339 form: the local date and time (here as the
\* count of ticks it denotes on the local clock) and the zone designator.
\* The sender writes an instant in some zone.
FormatRFC3339(instant, zone) ==
  [form |-> "rfc3339", wall |-> instant + zone * 3600 * TicksPerSecond,
   zone |-> zone]

\* Strings that are no RFC 3339 timestamp: empty, a date without a time, a
\* time without a zone designator.
MalformedTimestamps ==
  {[form |-> "empty", wall |-> 0, zone |-> 0],
   [form |-> "date-only", wall |-> Epoch, zone |-> 0],
   [form |-> "no-zone", wall |-> Epoch, zone |-> 0]}

\* time.Parse(time.RFC3339, s): [ok, t], t the instant the string denotes
ParseRFC3339(s) ==
  IF s.form # "rfc3339" THEN [ok |-> FALSE, t |-> 0]
  ELSE [ok |-> TRUE, t |-> s.wall - s.zone * 3600 * TicksPerSecond]

\* validateApplicationID with the comparison made before the emptiness check
validateApplicationID_CompareFirst(reqAppID, expected) ==
  IF reqAppID # expected THEN "request applicationID mismatch"
  ELSE IF reqAppID = "" THEN "request applicationID missing"
  ELSE ""

\* validateApplicationID on a non-nil session: "" when it returns nil
validateApplicationID(reqAppID, expected) ==
  IF reqAppID = "" THEN "request applicationID missing"
  ELSE IF reqAppID # expected THEN "request applicationID mismatch"
  ELSE ""

\* validateTimestamp rejecting a difference of exactly the tolerance
validateTimestamp_ExclusiveBound(timestamp, t, maxDiff) ==
  LET parsed == ParseRFC3339(timestamp)
      diff   == t - parsed.t
  IN  IF ~parsed.ok THEN "invalid timestamp"
      ELSE IF Abs(diff) >= maxDiff * TicksPerSecond THEN "timestamp difference exceeds"
      ELSE ""

\* validateTimestamp on a non-nil request: "" when it returns nil
validateTimestamp(timestamp, t, maxDiff) ==
  LET parsed == ParseRFC3339(timestamp)
      diff   == t - parsed.t
  IN  IF ~parsed.ok THEN "invalid timestamp"
      ELSE IF Abs(diff) > maxDiff * TicksPerSecond THEN "timestamp difference exceeds"
      ELSE ""

\* App.Handle: the routing on the request type; a session handler fails or answers
AppHandleResults(req) ==
  IF req.Type = "LaunchRequest" THEN {"response", "error"}
  ELSE {"ValidationError"}

ApplicationIDs == {"", "amzn1.ask.skill.1", "amzn1.ask.skill.2"}

SentInstants ==
  (Epoch - (maxDiffSeconds + SkewMargin) * TicksPerSecond)
    ..(Epoch + (maxDiffSeconds + SkewMargin) * TicksPerSecond)

Sessions == {Nil} \cup {Some([ApplicationID |-> a]) : a \in ApplicationIDs}

RequestTypes == {"LaunchRequest", "Unknown"}

\* The envelopes json.Unmarshal can produce: session and request are pointers
\* and are nil when the JSON leaves them out.
Envelopes(instant) ==
  [Session : Sessions,
   Request : {Nil}
     \cup {Some([Type |-> ty, Timestamp |-> ts]) :
             ty \in RequestTypes,
             ts \in {FormatRFC3339(instant, z) : z \in Zones} \cup MalformedTimestamps}]

\* Handle is called with an envelope, on an app configured with an identity.
StrictReceive ==
  /\ spc = "idle"
  /\ \E a \in {"", "amzn1.ask.skill.1"}, i \in SentInstants :
       /\ applicationID' = a
       /\ sentAt' = i
       /\ envelope' \in Envelopes(i)
  /\ spc' = "validateApplicationID"
  /\ UNCHANGED <<strictNow, idErr, tsErr, appHandled, strictResult>>
  /\ UNCHANGED httpVars

\* validateApplicationID(r, s.App.ApplicationID) and the return on its error;
\* r.Session.Application dereferences a nil session
ValidateApplicationIDStep ==
  /\ spc = "validateApplicationID"
  /\ IF envelope.Session = Nil
     THEN /\ strictResult' = "panic"
          /\ spc' = "done"
          /\ UNCHANGED idErr
     ELSE /\ idErr' = validateApplicationID(envelope.Session[1].ApplicationID,
                                            applicationID)
          /\ IF idErr' # ""
             THEN strictResult' = "ValidationError" /\ spc' = "done"
             ELSE spc' = "validateTimestamp" /\ UNCHANGED strictResult
  /\ UNCHANGED <<envelope, applicationID, sentAt, strictNow, tsErr, appHandled>>
  /\ UNCHANGED httpVars

\* time.Now(), validateTimestamp(r, now, 150) and the return on its error;
\* r.Request.Timestamp dereferences a nil request
ValidateTimestampStep ==
  /\ spc = "validateTimestamp"
  /\ strictNow' \in {Epoch, Epoch + 1}
  /\ IF envelope.Request = Nil
     THEN /\ strictResult' = "panic"
          /\ spc' = "done"
          /\ UNCHANGED tsErr
     ELSE /\ tsErr' = validateTimestamp(envelope.Request[1].Timestamp, strictNow',
                                        maxDiffSeconds)
          /\ IF tsErr' # ""
             THEN strictResult' = "ValidationError" /\ spc' = "done"
             ELSE spc' = "appHandle" /\ UNCHANGED strictResult
  /\ UNCHANGED <<envelope, applicationID, sentAt, idErr, appHandled>>
  /\ UNCHANGED httpVars

\* return s.App.Handle(ctx, r)
AppHandleStep ==
  /\ spc = "appHandle"
  /\ appHandled' = TRUE
  /\ strictResult' \in AppHandleResults(envelope.Request[1])
  /\ spc' = "done"
  /\ UNCHANGED <<envelope, applicationID, sentAt, strictNow, idErr, tsErr>>
  /\ UNCHANGED httpVars

StrictFinish ==
  /\ spc = "done"
  /\ spc' = "idle"
  /\ envelope' = Nil
  /\ applicationID' = ""
  /\ sentAt' = 0
  /\ strictNow' = 0
  /\ idErr' = ""
  /\ tsErr' = ""
  /\ appHandled' = FALSE
  /\ strictResult' = ""
  /\ UNCHANGED httpVars

StrictNext ==
  \/ StrictReceive
  \/ ValidateApplicationIDStep
  \/ ValidateTimestampStep
  \/ AppHandleStep
  \/ StrictFinish

Init == HTTPInit /\ StrictIdle

Next == HTTPNext

Spec == Init /\ [][Next]_vars

SpecStrict == Init /\ [][StrictNext]_vars

\* ------------------------------------------------------------------------
\* Properties of the HTTP gate (checked under Spec)
\* ------------------------------------------------------------------------

\* C1: the wrapped handler is invoked only if readValidateCertificate and
\* readValidateBody both returned success; when either returned an error the
\* request ends with status 401 and the wrapped handler is never called.
C1_HandlerOnlyAfterValidation ==
  /\ handlerCalled => (certErr = "" /\ cert # Nil /\ bodyErr = "" /\ bodyBuf # Nil)
  /\ (pc = "done" /\ (certErr # "" \/ bodyErr # ""))
       => (status = StatusUnauthorized /\ ~handlerCalled)

\* C2: the CertReader is called only after verifyCertURL accepted the header's
\* URL, and with exactly that URL; after a rejection it is never called.
C2_CertReaderOnlyAfterAcceptedURL ==
  /\ certReaderCalls # <<>> => (urlResult = "ok" /\ certReaderCalls = <<certURL>>)
  /\ urlResult # "ok" => certReaderCalls = <<>>
  /\ pc \in {"idle", "verifyCertURL", "certReader"} => certReaderCalls = <<>>

\* C2 witness: the reader was called for a request whose URL was accepted.
C2_ReaderCalled ==
  /\ pc = "parseCertificate"
  /\ urlResult = "ok"
  /\ certReaderCalls = <<certURL>>

\* C3: for every URL string verifyCertURL returns success or a descriptive
\* failure; it accepts exactly when the scheme is https, the host is the
\* trusted host (optionally with :443) and the path begins with /echo.api/,
\* and otherwise reports the first failing rule in the order scheme, host, path.
C3_VerifyCertURLTotal ==
  urlResult # "" =>
    LET link     == Parse(certURL)
        schemeOK == link.Scheme = Https
        hostOK   == link.Host \in {TrustedHost, TrustedHostPort}
        pathOK   == HasPrefix(link.Path, EchoPrefix)
    IN  /\ urlResult \in {"ok", "cert url not https", "cert not on s3", "not an echo cert"}
        /\ link.ok =>
             /\ urlResult = "ok" <=> (schemeOK /\ hostOK /\ pathOK)
             /\ ~schemeOK => urlResult = "cert url not https"
             /\ (schemeOK /\ ~hostOK) => urlResult = "cert not on s3"
             /\ (schemeOK /\ hostOK /\ ~pathOK) => urlResult = "not an echo cert"

\* C4: for every parsed certificate readValidateBody returns a re-readable
\* body or an error; a public key that is no RSA key is a failure, not a panic.
C4_KeyMismatchIsFailure ==
  (cert # Nil /\ pc = "done") => (bodyBuf # Nil \/ bodyErr # "")

\* C5: an error that is no authenticity rejection (the CertReader's transport
\* failure, an unreadable body, malformed certificate bytes) is never reported
\* with a status with which an authenticity rejection was reported.
C5_TransportErrorDistinct ==
  (pc = "done" /\ (certErr \notin AuthenticityRejections \cup {""}
                     \/ bodyErr \notin AuthenticityRejections \cup {""}))
    => status \notin rejectedWith

RECURSIVE Flatten(_)
Flatten(chunks) == IF chunks = <<>> THEN <<>> ELSE chunks[1] \o Flatten(From(chunks, 2))

\* readValidateBody has returned to the handler for this request.
BodyReturned == pc = "bodyReturned" \/ (pc = "done" /\ handlerCalled)

\* The Signature header is the clean base64 text of the signature of the
\* inbound body under the certificate's key.
SignedPair ==
  /\ ~DecodeString(signature).err
  /\ DecodeString(signature).out
       = SignPKCS1v15(cert[1].PublicKey, Sha1Sum(Flatten(body.chunks)))

\* C6: when verification succeeds the body returned and installed for the
\* wrapped handler is byte-identical to the inbound body; when the body or the
\* signature differs from the signed pair, verification rejects with
\* "signature match failed"; a Signature header that fails base64 decoding is
\* treated as a verification failure.
C6_BodyRoundTrip ==
  BodyReturned =>
    /\ bodyErr = "" =>
         /\ bodyBuf = Some(Flatten(body.chunks))
         /\ handlerCalled => handlerBody = Some(Flatten(body.chunks))
    /\ (~body.fail /\ ~SignedPair) => bodyErr = "signature match failed"
    /\ DecodeString(signature).err => bodyErr # ""

\* readValidateCertificate went through its checks on a parsed certificate.
CertificateChecked ==
  /\ pc \in {"certReturned", "readValidateBody", "bodyReturned", "done"}
  /\ certContents # Nil
  /\ certContents[1].der # Nil

\* C7: a parsed certificate is accepted exactly when not-before <= now <=
\* not-after in whole seconds and some subject name equals
\* echo-api.amazon.com; outside the window the error is "certificate
\* expired", and otherwise without the name it is "certification invalid".
C7_CertificateWindowAndName ==
  CertificateChecked =>
    LET c        == certContents[1].der[1]
        sec      == now \div TicksPerSecond
        inWindow == c.NotBefore <= sec /\ sec <= c.NotAfter
        named    == \E i \in DOMAIN c.Names : c.Names[i] = "echo-api.amazon.com"
    IN  /\ (certErr = "" /\ cert = Some(c)) <=> (inWindow /\ named)
        /\ certErr # "" => cert = Nil
        /\ ~inWindow => certErr = "certificate expired"
        /\ (inWindow /\ ~named) => certErr = "certification invalid"

\* C7 witness: a certificate is accepted in the last instant of its window,
\* its name found behind another entry.
C7_AcceptedAtBoundary ==
  /\ CertificateChecked
  /\ cert # Nil
  /\ now \div TicksPerSecond = cert[1].NotAfter
  /\ now % TicksPerSecond # 0
  /\ Len(cert[1].Names) = 2

\* ------------------------------------------------------------------------
\* Properties of StrictVerificationApp (checked under SpecStrict)
\* ------------------------------------------------------------------------

\* validateTimestamp has returned for a request that is present.
TimestampChecked ==
  /\ spc \in {"appHandle", "done"}
  /\ strictNow # 0
  /\ envelope.Request # Nil

\* C8: with tolerance 150 s a well-formed timestamp is accepted exactly when
\* it differs from now by at most 150 s (accepted at 150 s on either side,
\* rejected at 151 s); a malformed one is rejected as a ValidationError.
C8_TimestampWindow ==
  TimestampChecked =>
    LET ts == envelope.Request[1].Timestamp
        d  == strictNow - sentAt
    IN  IF ts.form = "rfc3339"
        THEN /\ tsErr = "" <=> (d <= 150 * TicksPerSecond /\ 0 - d <= 150 * TicksPerSecond)
             /\ d \in {150 * TicksPerSecond, 0 - 150 * TicksPerSecond} => tsErr = ""
             /\ d \in {151 * TicksPerSecond, 0 - 151 * TicksPerSecond}
                  => tsErr = "timestamp difference exceeds"
             /\ tsErr # "" => (strictResult = "ValidationError" /\ ~appHandled)
        ELSE /\ tsErr = "invalid timestamp"
             /\ strictResult = "ValidationError"
             /\ ~appHandled

\* C8 witness: a timestamp exactly 150 s old, written in another zone, is
\* accepted.
C8_AcceptedAtTolerance ==
  /\ TimestampChecked
  /\ envelope.Request[1].Timestamp.zone # 0
  /\ strictNow - sentAt = 150 * TicksPerSecond
  /\ tsErr = ""
  /\ spc = "appHandle"

\* validateApplicationID has returned for a session that is present.
ApplicationIDChecked ==
  /\ spc \in {"validateTimestamp", "appHandle", "done"}
  /\ envelope.Session # Nil

\* C9: the application ID is accepted exactly when it is non-empty and equals
\* the configured one; an empty ID is rejected as "missing", a non-empty
\* different one as "mismatch", also when the configured ID is empty.
C9_ApplicationIDBinding ==
  ApplicationIDChecked =>
    LET id == envelope.Session[1].ApplicationID
    IN  /\ idErr = "" <=> (id # "" /\ id = applicationID)
        /\ id = "" => idErr = "request applicationID missing"
        /\ (id # "" /\ id # applicationID) => idErr = "request applicationID mismatch"
        /\ idErr # "" => (strictResult = "ValidationError" /\ ~appHandled)

\* C9 witness: an empty ID is rejected as missing on an app configured with
\* the empty ID.
C9_EmptyRejectedOnEmptyConfig ==
  /\ ApplicationIDChecked
  /\ applicationID = ""
  /\ envelope.Session[1].ApplicationID = ""
  /\ idErr = "request applicationID missing"
  /\ spc = "done"

\* C10: for every envelope, also one without session or request, Handle ends
\* in the wrapped App.Handle (after both checks passed) or in a
\* ValidationError without the wrapped App being invoked; it never crashes.
C10_StrictHandleTotal ==
  spc = "done" =>
    /\ strictResult # "panic"
    /\ appHandled => (idErr = "" /\ tsErr = "" /\ strictNow # 0)
    /\ ~appHandled => strictResult = "ValidationError"

=============================================================================
